---- MODULE Spec2Model ----
(***************************************************************************)
(* Model of the video downloader: the download route handler (GET), the    *)
(* metadata route handler (POST) and the client download action            *)
(* (handleDownload).                                                       *)
(*                                                                         *)
(* JavaScript values are represented as follows.                           *)
(*   - a string on which the code does text operations (includes, replace, *)
(*     Number) is a tuple of one-character strings;                        *)
(*   - an optional value (T | null | undefined) is a tuple of length <= 1: *)
(*     None is <<>>, Some(x) is <<x>>;                                     *)
(*   - a JavaScript number that may be NaN is a record [nan, n].           *)
(***************************************************************************)
EXTENDS Integers, Sequences, FiniteSets, TLC

(* ------------------------------ bounds -------------------------------- *)

\* Longest format list the Resolver returns.
MaxFormats == 3
\* Most chunks a response body delivers.
MaxChunks == 3
\* Longest chunk, in bytes.
MaxChunkLen == 2
\* Largest declared Content-Length.
MaxTotal == 4

(* ------------------------- JavaScript values -------------------------- *)

None == <<>>
Some(x) == <<x>>
IsSome(o) == Len(o) = 1
Val(o) == o[1]

NaN == [nan |-> TRUE, n |-> 0]
Num(k) == [nan |-> FALSE, n |-> k]

\* JavaScript truthiness of a number: NaN and 0 are falsy.
TruthyNum(x) == ~x.nan /\ x.n # 0

DigitChars == <<"0", "1", "2", "3", "4", "5", "6", "7", "8", "9">>
IsDigit(c) == \E i \in 1..10 : DigitChars[i] = c
DigitVal(c) == (CHOOSE i \in 1..10 : DigitChars[i] = c) - 1

RECURSIVE DecimalValue(_)
DecimalValue(s) ==
  IF s = <<>> THEN 0
  ELSE 10 * DecimalValue(SubSeq(s, 1, Len(s) - 1)) + DigitVal(s[Len(s)])

\* Number(s) for a string s over digits and letters: the empty string is 0,
\* a string of decimal digits is its value, anything else is NaN.
ToNumber(s) ==
  IF \A i \in 1..Len(s) : IsDigit(s[i]) THEN Num(DecimalValue(s)) ELSE NaN

\* s.includes(sub)
Includes(s, sub) ==
  \E i \in 0..(Len(s) - Len(sub)) : SubSeq(s, i + 1, i + Len(sub)) = sub

\* s.replace(/p.*/, ''): everything from the first "p" on is removed.
StripFromP(s) ==
  IF \E i \in 1..Len(s) : s[i] = "p"
  THEN SubSeq(s, 1, (CHOOSE i \in 1..Len(s) :
                       s[i] = "p" /\ \A j \in 1..(i - 1) : s[j] # "p") - 1)
  ELSE s

\* s.split(';')[0]
BeforeSemicolon(s) ==
  IF \E i \in 1..Len(s) : s[i] = ";"
  THEN SubSeq(s, 1, (CHOOSE i \in 1..Len(s) :
                       s[i] = ";" /\ \A j \in 1..(i - 1) : s[j] # ";") - 1)
  ELSE s

(* ------------------------ the Resolver's formats ---------------------- *)

VideoMp4 == <<"v", "i", "d", "e", "o", "/", "m", "p", "4">>
VideoWebm == <<"v", "i", "d", "e", "o", "/", "w", "e", "b", "m">>
AudioMp4 == <<"a", "u", "d", "i", "o", "/", "m", "p", "4">>
AudioWebm == <<"a", "u", "d", "i", "o", "/", "w", "e", "b", "m">>

\* A format descriptor.  bitrate and audioSampleRate are only copied into the
\* metadata response.
Fmt(itag, hv, ha, container, label, abr, mime, clen) ==
  [itag |-> itag, hasVideo |-> hv, hasAudio |-> ha, container |-> container,
   qualityLabel |-> label, audioBitrate |-> abr,
   bitrate |-> Some(1000 * itag),
   audioSampleRate |-> IF ha THEN Some("44100") ELSE None,
   mimeType |-> mime, contentLength |-> clen]

\* The format descriptors the Resolver can return for a video: combined mp4
\* formats (one without a quality label, two of equal numeric quality), a
\* combined webm format, a video-only format, and audio-only formats (one
\* without a bit rate, two of equal bit rate).  Ids are positive and unique
\* within a response, so a response is a sequence of distinct members of
\* this set.  Quality labels have the form <digits>p<suffix>.
Catalogue ==
  { Fmt(18, TRUE, TRUE, "mp4", None, Some(96),
        Some(VideoMp4), Some(<<"2">>)),
    Fmt(22, TRUE, TRUE, "mp4", Some(<<"7", "2", "0", "p", "6", "0">>), Some(192),
        Some(VideoMp4), Some(<<"4">>)),
    Fmt(37, TRUE, TRUE, "mp4", Some(<<"1", "0", "8", "0", "p">>), Some(192),
        Some(VideoMp4), None),
    Fmt(38, TRUE, TRUE, "mp4", Some(<<"1", "0", "8", "0", "p", "6", "0">>), Some(192),
        Some(VideoMp4), Some(<<"3">>)),
    Fmt(43, TRUE, TRUE, "webm", Some(<<"3", "6", "0", "p">>), Some(128),
        Some(VideoWebm), Some(<<"2">>)),
    Fmt(137, TRUE, FALSE, "mp4", Some(<<"1", "0", "8", "0", "p">>), None,
        Some(VideoMp4), Some(<<"4">>)),
    Fmt(139, FALSE, TRUE, "mp4", None, None,
        Some(AudioMp4), Some(<<"1">>)),
    Fmt(140, FALSE, TRUE, "mp4", None, Some(128),
        Some(AudioMp4), Some(<<"2">>)),
    Fmt(171, FALSE, TRUE, "webm", None, Some(160),
        Some(AudioWebm), None),
    Fmt(251, FALSE, TRUE, "webm", None, Some(160),
        Some(AudioWebm), Some(<<"3">>)) }

Range(s) == {s[i] : i \in 1..Len(s)}

\* All sequences of at most k distinct members of S.
RECURSIVE DistinctSeqs(_, _)
DistinctSeqs(S, k) ==
  IF k = 0 THEN {<<>>}
  ELSE LET shorter == DistinctSeqs(S, k - 1)
       IN shorter \cup
          UNION {{Append(s, x) : x \in S \ Range(s)} :
                   s \in {t \in shorter : Len(t) = k - 1}}

FormatLists == DistinctSeqs(Catalogue, MaxFormats)

(* ------------------------------- state -------------------------------- *)

\* The route handlers, src/unnamed/part_000 (GET) and part_001 (POST).
VARIABLES
  pc,              \* position of the route handler serving the current request
  request,         \* the current HTTP request (part_000:19-21, part_001:9)
  formats,         \* info.formats, once getInfo has returned (part_000:32)
  infoState,       \* outcome of ytdl.getInfo: "none", "returned" or "threw"
  selectedFormat,  \* selectedFormat of the download handler (part_000:36-56)
  selectedBy,      \* which rule produced selectedFormat
  calls,           \* the calls made to ytdl for the current request, in order
  response         \* the response returned for the current request

serverVars ==
  <<pc, request, formats, infoState, selectedFormat, selectedBy, calls, response>>

\* The page component, src/app/page.tsx.
VARIABLES
  cpc,            \* position of the client inside handleDownload (108-171)
  info,           \* whether the info state holds video details (line 44)
  progress,       \* the progress state (line 51)
  isDownloading,  \* the isDownloading state (line 50)
  errorMessage,   \* whether the errorMessage state is non-empty (line 48)
  contentLength,  \* the local contentLength of handleDownload (line 133)
  chunks,         \* the lengths of the chunks pushed to chunks (line 135)
  received,       \* the local received (line 136)
  exhausted,      \* whether reader.read() has reported done (line 139-140)
  objectUrl       \* downloadUrl (line 153): "none", "created", "revoked"

clientVars ==
  <<cpc, info, progress, isDownloading, errorMessage, contentLength, chunks,
    received, exhausted, objectUrl>>

vars == <<serverVars, clientVars>>

(* ------------------------- download route: GET ------------------------ *)

UrlNull == [t |-> "null", v |-> ""]
UrlUndefined == [t |-> "undefined", v |-> ""]
UrlNumber == [t |-> "number", v |-> ""]
UrlString(v) == [t |-> "string", v |-> v]

\* ytdl.validateURL: the Resolver's own check, abstracted to two classes of
\* string.
ValidateURL(url) == url.v = "good"

\* typeof url !== 'string' || !ytdl.validateURL(url)
UrlRejected(url) == url.t # "string" \/ ~ValidateURL(url)

NoResponse ==
  [status |-> 0, body |-> "none", contentType |-> None, contentLength |-> None,
   mp4Formats |-> <<>>, audioFormats |-> <<>>]

ErrorResponse(status) == [NoResponse EXCEPT !.status = status, !.body = "error"]

GetInfoCall == [op |-> "getInfo", quality |-> 0, filter |-> ""]
StreamCall(itag, filter) == [op |-> "ytdl", quality |-> itag, filter |-> filter]

\* request.nextUrl.searchParams.get('type') ?? 'video'
TypeParam(req) == IF IsSome(req.type) THEN Val(req.type) ELSE "video"

\* itagParam ? Number(itagParam) : undefined      (undefined is None)
TargetItag(itagParam) ==
  IF IsSome(itagParam) /\ Val(itagParam) # <<>>
  THEN Some(ToNumber(Val(itagParam)))
  ELSE None

\* formats.find(callback), hits being the positions of the elements the
\* callback accepts: the first such element, or undefined.
Find(fs, hits) ==
  IF hits # {}
  THEN Some(fs[CHOOSE i \in hits : \A j \in hits : i <= j])
  ELSE None

\* targetItag ? formats.find((format) => format.itag === targetItag) : undefined
FindByItag(fs, target) ==
  IF IsSome(target) /\ TruthyNum(Val(target))
  THEN Find(fs, {i \in 1..Len(fs) : fs[i].itag = Val(target).n})
  ELSE None

IsAudioOnly(f) == f.hasAudio /\ ~f.hasVideo
IsCombined(f) == f.hasVideo /\ f.hasAudio
IsCombinedMp4(f) == f.hasVideo /\ f.hasAudio /\ f.container = "mp4"

\* Number(format.audioBitrate ?? 0)
AudioKey(f) == IF IsSome(f.audioBitrate) THEN Num(Val(f.audioBitrate)) ELSE Num(0)

\* Variant of QualityKey that does not strip the label's suffix:
\* Number("1080p") is NaN.
QualityKeyUnstripped(f) ==
  ToNumber(IF IsSome(f.qualityLabel) THEN Val(f.qualityLabel) ELSE <<>>)

\* Number((format.qualityLabel ?? '').replace(/p.*/, ''))
QualityKey(f) ==
  ToNumber(StripFromP(IF IsSome(f.qualityLabel) THEN Val(f.qualityLabel) ELSE <<>>))

\* kb - ka, and a NaN comparator result is treated by sort as +0.
Difference(kb, ka) == IF kb.nan \/ ka.nan THEN 0 ELSE kb.n - ka.n

\* Variant of CompareAudio with the operands exchanged: an ascending sort.
CompareAudioAscending(a, b) == Difference(AudioKey(a), AudioKey(b))

\* (a, b) => Number(b.audioBitrate ?? 0) - Number(a.audioBitrate ?? 0)
CompareAudio(a, b) == Difference(AudioKey(b), AudioKey(a))

\* (a, b) => qualityB - qualityA
CompareVideo(a, b) == Difference(QualityKey(b), QualityKey(a))

Compare(kind, a, b) == IF kind = "audio" THEN CompareAudio(a, b) ELSE CompareVideo(a, b)

\* Insertion of x into the sorted list s behind every element that does not
\* sort after it.
RECURSIVE Insert(_, _, _)
Insert(kind, s, x) ==
  IF s = <<>> THEN <<x>>
  ELSE IF Compare(kind, Head(s), x) <= 0
       THEN <<Head(s)>> \o Insert(kind, Tail(s), x)
       ELSE <<x>> \o s

\* Array.prototype.sort with the comparator of `kind`: a stable sort.
RECURSIVE Sort(_, _)
Sort(kind, s) ==
  IF s = <<>> THEN <<>>
  ELSE Insert(kind, Sort(kind, SubSeq(s, 1, Len(s) - 1)), s[Len(s)])

\* preferredAudio
PreferredAudio(fs) == Sort("audio", SelectSeq(fs, IsAudioOnly))

\* preferredVideo
PreferredVideo(fs) == Sort("video", SelectSeq(fs, IsCombinedMp4))

\* formats.find((format) => format.hasAudio && !format.hasVideo)
FallbackAudio(fs) == Find(fs, {i \in 1..Len(fs) : IsAudioOnly(fs[i])})

\* formats.find((format) => format.hasVideo && format.hasAudio)
FallbackVideo(fs) == Find(fs, {i \in 1..Len(fs) : IsCombined(fs[i])})

\* Variant of SelectFormat that consults the default policy of the kind
\* before the explicit id.
SelectFormatPolicyFirst(fs, type, itagParam) ==
  LET explicit == FindByItag(fs, TargetItag(itagParam))
      preferred == IF type = "audio" THEN PreferredAudio(fs) ELSE PreferredVideo(fs)
      fallback == IF type = "audio" THEN FallbackAudio(fs) ELSE FallbackVideo(fs)
  IN IF preferred # <<>> THEN [format |-> Some(preferred[1]), by |-> "preferred"]
     ELSE IF IsSome(fallback) THEN [format |-> fallback, by |-> "fallback"]
     ELSE IF IsSome(explicit) THEN [format |-> explicit, by |-> "explicit"]
     ELSE [format |-> None, by |-> "none"]

\* The selection of lines 34-56: the format and the rule that produced it.
SelectFormat(fs, type, itagParam) ==
  LET explicit == FindByItag(fs, TargetItag(itagParam))
      preferred == IF type = "audio" THEN PreferredAudio(fs) ELSE PreferredVideo(fs)
      fallback == IF type = "audio" THEN FallbackAudio(fs) ELSE FallbackVideo(fs)
  IN IF IsSome(explicit) THEN [format |-> explicit, by |-> "explicit"]
     ELSE IF preferred # <<>> THEN [format |-> Some(preferred[1]), by |-> "preferred"]
     ELSE IF IsSome(fallback) THEN [format |-> fallback, by |-> "fallback"]
     ELSE [format |-> None, by |-> "none"]

\* selectedFormat.mimeType?.split(';')[0] ?? 'application/octet-stream'
ContentTypeOf(f) ==
  IF IsSome(f.mimeType) THEN Some(BeforeSemicolon(Val(f.mimeType))) ELSE None

\* selectedFormat.contentLength ? { 'Content-Length': ... } : {}
ContentLengthOf(f) ==
  IF IsSome(f.contentLength) /\ Val(f.contentLength) # <<>> THEN f.contentLength ELSE None

\* type === 'audio' ? 'audioonly' : 'videoandaudio'
StreamFilter(type) == IF type = "audio" THEN "audioonly" ELSE "videoandaudio"

TypeParams == {None, Some("video"), Some("audio")}
ItagParams ==
  {None, Some(<<>>), Some(<<"0">>), Some(<<"x">>), Some(<<"2", "2">>),
   Some(<<"1", "4", "0">>), Some(<<"9", "9">>)}

GetRequests ==
  [method : {"GET"}, body : {"none"}, url : {UrlNull, UrlString("bad"), UrlString("good")},
   type : TypeParams, itag : ItagParams]

NoRequest ==
  [method |-> "none", body |-> "none", url |-> UrlNull, type |-> None, itag |-> None]

\* A request arrives at the download route.
GETRequest ==
  /\ pc = "idle"
  /\ request' \in GetRequests
  /\ pc' = "GET_validate"
  /\ UNCHANGED <<formats, infoState, selectedFormat, selectedBy, calls, response>>
  /\ UNCHANGED clientVars

\* Lines 23-28.
GETValidate ==
  /\ pc = "GET_validate"
  /\ IF UrlRejected(request.url)
     THEN pc' = "done" /\ response' = ErrorResponse(400)
     ELSE pc' = "GET_getInfo" /\ response' = response
  /\ UNCHANGED <<request, formats, infoState, selectedFormat, selectedBy, calls>>
  /\ UNCHANGED clientVars

\* Line 31: getInfo returns a format list, or throws (lines 84-90).
GETGetInfo ==
  /\ pc = "GET_getInfo"
  /\ calls' = Append(calls, GetInfoCall)
  /\ \/ /\ formats' \in FormatLists
        /\ infoState' = "returned"
        /\ pc' = "GET_select"
        /\ response' = response
     \/ /\ formats' = formats
        /\ infoState' = "threw"
        /\ pc' = "done"
        /\ response' = ErrorResponse(500)
  /\ UNCHANGED <<request, selectedFormat, selectedBy>>
  /\ UNCHANGED clientVars

\* Lines 34-63.
GETSelect ==
  /\ pc = "GET_select"
  /\ LET sel == SelectFormat(formats, TypeParam(request), request.itag)
     IN /\ selectedFormat' = sel.format
        /\ selectedBy' = sel.by
        /\ IF IsSome(sel.format)
           THEN pc' = "GET_stream" /\ response' = response
           ELSE pc' = "done" /\ response' = ErrorResponse(404)
  /\ UNCHANGED <<request, formats, infoState, calls>>
  /\ UNCHANGED clientVars

\* Lines 65-83, or a throw caught at lines 84-90.
GETStream ==
  /\ pc = "GET_stream"
  /\ pc' = "done"
  /\ LET f == Val(selectedFormat)
     IN \/ /\ calls' = Append(calls, StreamCall(f.itag, StreamFilter(TypeParam(request))))
           /\ response' = [NoResponse EXCEPT !.status = 200, !.body = "stream",
                                             !.contentType = ContentTypeOf(f),
                                             !.contentLength = ContentLengthOf(f)]
        \/ /\ calls' \in {calls, Append(calls, StreamCall(f.itag, StreamFilter(TypeParam(request))))}
           /\ response' = ErrorResponse(500)
  /\ UNCHANGED <<request, formats, infoState, selectedFormat, selectedBy>>
  /\ UNCHANGED clientVars

(* -------------------------- metadata route: POST --------------------- *)

HasVideo(f) == f.hasVideo
HasAudio(f) == f.hasAudio

\* Variant of FilterFormats whose filters test one track only.
FilterFormatsOneTrack(fs, filter) ==
  IF filter = "videoandaudio" THEN SelectSeq(fs, HasVideo)
  ELSE IF filter = "audioonly" THEN SelectSeq(fs, HasAudio)
  ELSE fs

\* ytdl.filterFormats(formats, filter) for the two filters the route uses.
FilterFormats(fs, filter) ==
  IF filter = "videoandaudio" THEN SelectSeq(fs, IsCombined)
  ELSE IF filter = "audioonly" THEN SelectSeq(fs, IsAudioOnly)
  ELSE fs

\* format.mimeType?.includes(sub)
MimeIncludes(f, sub) == IsSome(f.mimeType) /\ Includes(Val(f.mimeType), sub)

MimeHasMp4(f) == MimeIncludes(f, <<"m", "p", "4">>)
MimeHasAudio(f) == MimeIncludes(f, <<"a", "u", "d", "i", "o">>)

\* Lines 24-29.
Mp4Entry(f) ==
  [itag |-> f.itag, qualityLabel |-> f.qualityLabel, container |-> f.container,
   bitrate |-> f.bitrate]

\* Lines 34-39.
AudioEntry(f) ==
  [itag |-> f.itag, bitrate |-> f.bitrate, container |-> f.container,
   audioSampleRate |-> f.audioSampleRate]

\* Lines 21-29.
Mp4Formats(fs) ==
  LET kept == SelectSeq(FilterFormats(fs, "videoandaudio"), MimeHasMp4)
  IN [k \in 1..Len(kept) |-> Mp4Entry(kept[k])]

\* Lines 31-39.
AudioFormats(fs) ==
  LET kept == SelectSeq(FilterFormats(fs, "audioonly"), MimeHasAudio)
  IN [k \in 1..Len(kept) |-> AudioEntry(kept[k])]

\* The body is not JSON, is the JSON value null, or is a JSON object whose
\* url member is absent, null, a number or a string.
PostRequests ==
  [method : {"POST"}, body : {"malformed", "null"}, url : {UrlUndefined},
   type : {None}, itag : {None}]
  \cup
  [method : {"POST"}, body : {"object"},
   url : {UrlUndefined, UrlNull, UrlNumber, UrlString("bad"), UrlString("good")},
   type : {None}, itag : {None}]

\* A request arrives at the metadata route.
POSTRequest ==
  /\ pc = "idle"
  /\ request' \in PostRequests
  /\ pc' = "POST_parse"
  /\ UNCHANGED <<formats, infoState, selectedFormat, selectedBy, calls, response>>
  /\ UNCHANGED clientVars

\* Line 9: request.json() rejects on a body that is not JSON, and
\* destructuring null throws; both are caught at lines 49-55.
POSTParse ==
  /\ pc = "POST_parse"
  /\ IF request.body \in {"malformed", "null"}
     THEN pc' = "done" /\ response' = ErrorResponse(500)
     ELSE pc' = "POST_validate" /\ response' = response
  /\ UNCHANGED <<request, formats, infoState, selectedFormat, selectedBy, calls>>
  /\ UNCHANGED clientVars

\* Lines 11-16.
POSTValidate ==
  /\ pc = "POST_validate"
  /\ IF UrlRejected(request.url)
     THEN pc' = "done" /\ response' = ErrorResponse(400)
     ELSE pc' = "POST_getInfo" /\ response' = response
  /\ UNCHANGED <<request, formats, infoState, selectedFormat, selectedBy, calls>>
  /\ UNCHANGED clientVars

\* Line 18: getInfo returns a format list, or throws (lines 49-55).
POSTGetInfo ==
  /\ pc = "POST_getInfo"
  /\ calls' = Append(calls, GetInfoCall)
  /\ \/ /\ formats' \in FormatLists
        /\ infoState' = "returned"
        /\ pc' = "POST_respond"
        /\ response' = response
     \/ /\ formats' = formats
        /\ infoState' = "threw"
        /\ pc' = "done"
        /\ response' = ErrorResponse(500)
  /\ UNCHANGED <<request, selectedFormat, selectedBy>>
  /\ UNCHANGED clientVars

\* Lines 19-48.
POSTRespond ==
  /\ pc = "POST_respond"
  /\ pc' = "done"
  /\ response' = [NoResponse EXCEPT !.status = 200, !.body = "json",
                                    !.mp4Formats = Mp4Formats(formats),
                                    !.audioFormats = AudioFormats(formats)]
  /\ UNCHANGED <<request, formats, infoState, selectedFormat, selectedBy, calls>>
  /\ UNCHANGED clientVars

(* ----------------------- client: handleDownload ---------------------- *)

RECURSIVE DecimalString(_)
\* The decimal digits of a natural number, as a header carries them.
DecimalString(k) ==
  IF k < 10 THEN <<DigitChars[k + 1]>>
  ELSE DecimalString(k \div 10) \o <<DigitChars[(k % 10) + 1]>>

\* The Content-Length headers a response can carry: none, or a length.
LengthHeaders == {None} \cup {Some(DecimalString(k)) : k \in 0..MaxTotal}

\* Number(response.headers.get('Content-Length') ?? '0')
ContentLengthNumber(header) ==
  ToNumber(IF IsSome(header) THEN Val(header) ELSE <<"0">>)

Min(a, b) == IF a <= b THEN a ELSE b

\* Math.round((r / total) * 100) for r >= 0 and total > 0: the nearest
\* integer, a half rounding up.
RoundPercent(r, total) == (200 * r + total) \div (2 * total)

\* Math.floor((r / total) * 100): the percentage truncated.
FloorPercent(r, total) == (100 * r) \div total

\* Variant of ProgressAfterChunk that truncates instead of rounding.
ProgressAfterChunkFloor(r, total) == Min(99, FloorPercent(r, total))

\* Variant of ProgressAfterChunk without the cap.
ProgressAfterChunkUncapped(r, total) == RoundPercent(r, total)

\* Math.min(99, Math.round((received / contentLength) * 100))
ProgressAfterChunk(r, total) == Min(99, RoundPercent(r, total))

\* handleSubmit, lines 66-106, as far as handleDownload depends on it: info
\* is cleared, and set again when the metadata request succeeds.
HandleSubmit ==
  /\ cpc \in {"idle", "done"}
  /\ info' \in BOOLEAN
  /\ errorMessage' = ~info'
  /\ UNCHANGED <<cpc, progress, isDownloading, contentLength, chunks, received,
                 exhausted, objectUrl>>
  /\ UNCHANGED serverVars

\* Lines 109-124.  With info null the handler returns at once and changes
\* nothing.
DownloadStart ==
  /\ cpc \in {"idle", "done"}
  /\ info
  /\ errorMessage' = FALSE
  /\ isDownloading' = TRUE
  /\ progress' = 0
  /\ contentLength' = Num(0)
  /\ chunks' = <<>>
  /\ received' = 0
  /\ exhausted' = FALSE
  /\ objectUrl' = "none"
  /\ cpc' = "fetch"
  /\ UNCHANGED info
  /\ UNCHANGED serverVars

\* Lines 126-136: the response is usable and its header is read, or fetch
\* rejects, or the response is not ok or has no body and line 130 throws.
Fetch ==
  /\ cpc = "fetch"
  /\ \/ /\ \E header \in LengthHeaders : contentLength' = ContentLengthNumber(header)
        /\ cpc' = "read"
     \/ /\ contentLength' = contentLength
        /\ cpc' = "catch"
  /\ UNCHANGED <<info, progress, isDownloading, errorMessage, chunks, received,
                 exhausted, objectUrl>>
  /\ UNCHANGED serverVars

\* Lines 139-147, one chunk: done is false and value is a chunk.
ReadChunk ==
  /\ cpc = "read"
  /\ Len(chunks) < MaxChunks
  /\ \E n \in 0..MaxChunkLen :
       /\ chunks' = Append(chunks, n)
       /\ received' = received + n
       /\ progress' = IF TruthyNum(contentLength)
                      THEN ProgressAfterChunk(received + n, contentLength.n)
                      ELSE progress
  /\ UNCHANGED <<cpc, info, isDownloading, errorMessage, contentLength, exhausted,
                 objectUrl>>
  /\ UNCHANGED serverVars

\* Lines 139-140: done is true.
ReadDone ==
  /\ cpc = "read"
  /\ exhausted' = TRUE
  /\ cpc' = "assemble"
  /\ UNCHANGED <<info, progress, isDownloading, errorMessage, contentLength, chunks,
                 received, objectUrl>>
  /\ UNCHANGED serverVars

\* Line 139: reader.read() rejects.
ReadError ==
  /\ cpc = "read"
  /\ cpc' = "catch"
  /\ UNCHANGED <<info, progress, isDownloading, errorMessage, contentLength, chunks,
                 received, exhausted, objectUrl>>
  /\ UNCHANGED serverVars

\* Lines 150-153: the blob is built and its object URL created, or a step
\* before the creation throws.
CreateObjectUrl ==
  /\ cpc = "assemble"
  /\ \/ objectUrl' = "created" /\ cpc' = "anchor"
     \/ objectUrl' = objectUrl /\ cpc' = "catch"
  /\ UNCHANGED <<info, progress, isDownloading, errorMessage, contentLength, chunks,
                 received, exhausted>>
  /\ UNCHANGED serverVars

\* Lines 154-156: the anchor is built, or a step throws.
BuildAnchor ==
  /\ cpc = "anchor"
  /\ cpc' \in {"save", "catch"}
  /\ UNCHANGED <<info, progress, isDownloading, errorMessage, contentLength, chunks,
                 received, exhausted, objectUrl>>
  /\ UNCHANGED serverVars

\* Lines 157-159: the anchor is attached, clicked and removed, or a step
\* throws.
TriggerSave ==
  /\ cpc = "save"
  /\ cpc' \in {"release", "catch"}
  /\ UNCHANGED <<info, progress, isDownloading, errorMessage, contentLength, chunks,
                 received, exhausted, objectUrl>>
  /\ UNCHANGED serverVars

\* Lines 160-162.
ReleaseAndComplete ==
  /\ cpc = "release"
  /\ objectUrl' = "revoked"
  /\ progress' = 100
  /\ cpc' = "finally"
  /\ UNCHANGED <<info, isDownloading, errorMessage, contentLength, chunks, received,
                 exhausted>>
  /\ UNCHANGED serverVars

\* Lines 163-167.
Catch ==
  /\ cpc = "catch"
  /\ errorMessage' = TRUE
  /\ cpc' = "finally"
  /\ UNCHANGED <<info, progress, isDownloading, contentLength, chunks, received,
                 exhausted, objectUrl>>
  /\ UNCHANGED serverVars

\* Lines 168-170.
Finally ==
  /\ cpc = "finally"
  /\ isDownloading' = FALSE
  /\ cpc' = "done"
  /\ UNCHANGED <<info, progress, errorMessage, contentLength, chunks, received,
                 exhausted, objectUrl>>
  /\ UNCHANGED serverVars

(* ---------------------------- specifications -------------------------- *)

Init ==
  /\ pc = "idle"
  /\ request = NoRequest
  /\ formats = <<>>
  /\ infoState = "none"
  /\ selectedFormat = None
  /\ selectedBy = "none"
  /\ calls = <<>>
  /\ response = NoResponse
  /\ cpc = "idle"
  /\ info = FALSE
  /\ progress = 0
  /\ isDownloading = FALSE
  /\ errorMessage = FALSE
  /\ contentLength = Num(0)
  /\ chunks = <<>>
  /\ received = 0
  /\ exhausted = FALSE
  /\ objectUrl = "none"

\* One request served by a route handler.
Next ==
  \/ GETRequest
  \/ GETValidate
  \/ GETGetInfo
  \/ GETSelect
  \/ GETStream
  \/ POSTRequest
  \/ POSTParse
  \/ POSTValidate
  \/ POSTGetInfo
  \/ POSTRespond

Spec == Init /\ [][Next]_vars

\* The page's download action, run any number of times.
ClientNext ==
  \/ HandleSubmit
  \/ DownloadStart
  \/ Fetch
  \/ ReadChunk
  \/ ReadDone
  \/ ReadError
  \/ CreateObjectUrl
  \/ BuildAnchor
  \/ TriggerSave
  \/ ReleaseAndComplete
  \/ Catch
  \/ Finally

ClientSpec == Init /\ [][ClientNext]_vars

(* ------------------------------ properties ---------------------------- *)

\* The download handler has run its selection (lines 34-56) on a format list.
DownloadSelected ==
  request.method = "GET" /\ infoState = "returned" /\ pc \in {"GET_stream", "done"}

\* The requested kind.
Kind == IF request.type = Some("audio") THEN "audio" ELSE "video"

\* Positions of the formats whose id is the explicit id of the request.
RequestedIdIdx ==
  {i \in 1..Len(formats) :
     /\ IsSome(request.itag)
     /\ Val(request.itag) # <<>>
     /\ ToNumber(Val(request.itag)) = Num(formats[i].itag)}

AudioOnlyIdx == {i \in 1..Len(formats) : formats[i].hasAudio /\ ~formats[i].hasVideo}
AudioIdx == {i \in 1..Len(formats) : formats[i].hasAudio}
CombinedIdx == {i \in 1..Len(formats) : formats[i].hasAudio /\ formats[i].hasVideo}
CombinedMp4Idx == {i \in CombinedIdx : formats[i].container = "mp4"}

MinOf(S) == CHOOSE i \in S : \A j \in S : i <= j

\* The audio bit rate of a format, an absent one counting as 0.
BitRate(f) == IF IsSome(f.audioBitrate) THEN Val(f.audioBitrate) ELSE 0

\* The value of the longest prefix of decimal digits of a string.
RECURSIVE LeadingDigits(_)
LeadingDigits(s) ==
  IF s # <<>> /\ IsDigit(Head(s)) THEN <<Head(s)>> \o LeadingDigits(Tail(s)) ELSE <<>>

\* The numeric quality of a format: "1080p60" gives 1080.
Quality(f) ==
  IF IsSome(f.qualityLabel) THEN DecimalValue(LeadingDigits(Val(f.qualityLabel))) ELSE 0

\* C1: when the request carries an explicit format id and a format of the
\* full list has that id, that format is the selected one, whatever its
\* tracks and the requested kind, and the default policy is not used.
C1_ExplicitIdWins ==
  DownloadSelected =>
    \A i \in RequestedIdIdx :
      selectedFormat = Some(formats[i]) /\ selectedBy = "explicit"

\* An audio-only format is selected by id for kind = video, although the
\* default video policy has a candidate.
C1_Witness ==
  /\ DownloadSelected
  /\ Kind = "video"
  /\ CombinedMp4Idx # {}
  /\ \E i \in RequestedIdIdx :
       i \in AudioOnlyIdx /\ selectedFormat = Some(formats[i]) /\ pc = "GET_stream"

\* C2: for kind = audio without a matching explicit id, when audio-only
\* formats exist the selected format is audio-only, has the greatest audio
\* bit rate among them, and is the first in native order with that bit rate.
C2_AudioMaxBitRate ==
  (DownloadSelected /\ Kind = "audio" /\ RequestedIdIdx = {} /\ AudioOnlyIdx # {}) =>
    \E i \in AudioOnlyIdx :
      /\ selectedFormat = Some(formats[i])
      /\ \A j \in AudioOnlyIdx :
           /\ BitRate(formats[j]) <= BitRate(formats[i])
           /\ j < i => BitRate(formats[j]) < BitRate(formats[i])

\* Three audio-only formats, the greatest bit rate shared by the second and
\* the third: the second is selected.
C2_Witness ==
  /\ DownloadSelected /\ Kind = "audio" /\ RequestedIdIdx = {}
  /\ Len(formats) = 3 /\ AudioOnlyIdx = {1, 2, 3}
  /\ BitRate(formats[1]) < BitRate(formats[2])
  /\ BitRate(formats[2]) = BitRate(formats[3])
  /\ selectedFormat = Some(formats[2])

\* C3: for kind = video without a matching explicit id, when combined mp4
\* formats exist the selected format is one of them, has the greatest
\* numeric quality among them and is the first in native order with that
\* quality; when none exists but a combined format does, the first combined
\* format in native order is selected.
C3_VideoMaxQuality ==
  (DownloadSelected /\ Kind = "video" /\ RequestedIdIdx = {}) =>
    /\ CombinedMp4Idx # {} =>
         \E i \in CombinedMp4Idx :
           /\ selectedFormat = Some(formats[i])
           /\ \A j \in CombinedMp4Idx :
                /\ Quality(formats[j]) <= Quality(formats[i])
                /\ j < i => Quality(formats[j]) < Quality(formats[i])
    /\ (CombinedMp4Idx = {} /\ CombinedIdx # {}) =>
         selectedFormat = Some(formats[MinOf(CombinedIdx)])

\* Labels 720p60, 1080p, 1080p60 in this order: the 1080p format is selected.
C3_Witness ==
  /\ DownloadSelected /\ Kind = "video" /\ RequestedIdIdx = {}
  /\ Len(formats) = 3 /\ CombinedMp4Idx = {1, 2, 3}
  /\ Quality(formats[1]) = 720 /\ Quality(formats[2]) = 1080
  /\ Quality(formats[3]) = 1080
  /\ selectedFormat = Some(formats[2])

\* C4: for kind = audio without a matching explicit id, when no audio-only
\* format exists but a format with an audio track does, the first format
\* with an audio track is selected and the answer is not 404.
C4_AudioFallbackAnyAudio ==
  (DownloadSelected /\ Kind = "audio" /\ RequestedIdIdx = {}
     /\ AudioOnlyIdx = {} /\ AudioIdx # {}) =>
    /\ selectedFormat = Some(formats[MinOf(AudioIdx)])
    /\ response.status # 404

\* No explicit id matches, and neither rule of the requested kind (the
\* preferred one, or the fallback: any audio track for audio, both tracks
\* for video) has a candidate.
NothingSelectable ==
  /\ RequestedIdIdx = {}
  /\ IF Kind = "audio" THEN AudioOnlyIdx = {} /\ AudioIdx = {}
                       ELSE CombinedMp4Idx = {} /\ CombinedIdx = {}

StreamOpened == \E k \in 1..Len(calls) : calls[k].op = "ytdl"

\* C5: the download handler answers 404 with an error body, without opening
\* a stream, exactly when the format list was obtained and nothing is
\* selectable from it.
C5_NotFoundIffNothingSelectable ==
  (request.method = "GET" /\ pc = "done") =>
    /\ (response.status = 404) <=> (infoState = "returned" /\ NothingSelectable)
    /\ response.status = 404 => (response.body = "error" /\ ~StreamOpened)

\* C6: at either endpoint a url that is missing, not a string or rejected
\* by validateURL is never followed by a call of getInfo or ytdl, and the
\* answer is 400 with an error body.
C6_InvalidUrlIs400 ==
  (request.method \in {"GET", "POST"}
     /\ (request.url.t # "string" \/ ~ValidateURL(request.url))) =>
    /\ calls = <<>>
    /\ pc = "done" => (response.status = 400 /\ response.body = "error")

\* The sum of the lengths of the chunks read so far.
RECURSIVE SumOf(_)
SumOf(s) == IF s = <<>> THEN 0 ELSE Head(s) + SumOf(Tail(s))

\* C7: the progress is below 100 as long as the reader has not reported the
\* end of the stream, on failing paths too; it is 100 only in a run that
\* drained the stream and completed (lines 160-162 ran), and it is 100
\* after every run that completed.
C7_ProgressBelow100UntilExhausted ==
  /\ ~exhausted => progress < 100
  /\ progress = 100 => (exhausted /\ objectUrl = "revoked")
  /\ (cpc \in {"finally", "done"} /\ objectUrl = "revoked") => progress = 100

\* A chunk took the received bytes to the declared length or beyond while
\* the stream was still open.
C7_Witness ==
  /\ cpc = "read" /\ TruthyNum(contentLength)
  /\ chunks # <<>> /\ received >= contentLength.n
  /\ progress = 99

\* C8 as stated: after each chunk, with a declared length, the progress is
\* min(99, floor(received / total * 100)), received being the sum of the
\* chunks read so far.
C8_ProgressIsFloor ==
  (cpc = "read" /\ chunks # <<>> /\ TruthyNum(contentLength)) =>
    progress = Min(99, (100 * SumOf(chunks)) \div contentLength.n)

\* C8 amended: after each chunk, with a declared length, the progress is
\* min(99, round(received / total * 100)), round being the nearest integer
\* with a half rounding up, received the sum of the chunks read so far.
C8_ProgressIsRound ==
  (cpc = "read" /\ chunks # <<>> /\ TruthyNum(contentLength)) =>
    /\ received = SumOf(chunks)
    /\ \E q \in 0..(100 * received) :
         /\ 2 * contentLength.n * q <= 200 * received + contentLength.n
         /\ 200 * received + contentLength.n < 2 * contentLength.n * (q + 1)
         /\ progress = Min(99, q)

\* Two chunks read, and a percentage below the cap that rounding takes up.
C8_Witness ==
  /\ cpc = "read" /\ Len(chunks) >= 2 /\ TruthyNum(contentLength)
  /\ progress < 99
  /\ progress > (100 * SumOf(chunks)) \div contentLength.n

\* C9: no run of the download action ends with an object URL that was
\* created and not released.
C9_ObjectUrlReleased == cpc = "done" => objectUrl # "created"

\* Position in the Resolver's list of the format an entry was mapped from.
SourceIdx(entry) == CHOOSE i \in 1..Len(formats) : formats[i].itag = entry.itag

FromFormats(entries) ==
  \A k \in 1..Len(entries) : \E i \in 1..Len(formats) : formats[i].itag = entries[k].itag

InNativeOrder(entries) ==
  \A k, l \in 1..Len(entries) : k < l => SourceIdx(entries[k]) < SourceIdx(entries[l])

\* C10: in the metadata response every combined entry comes from a format
\* with both tracks, every audio-only entry from a format with an audio
\* track and no video track, and both lists are in the Resolver's order.
C10_ListsTracksAndOrder ==
  (request.method = "POST" /\ pc = "done" /\ response.status = 200) =>
    /\ FromFormats(response.mp4Formats) /\ FromFormats(response.audioFormats)
    /\ \A k \in 1..Len(response.mp4Formats) :
         SourceIdx(response.mp4Formats[k]) \in CombinedIdx
    /\ \A k \in 1..Len(response.audioFormats) :
         SourceIdx(response.audioFormats[k]) \in AudioOnlyIdx
    /\ InNativeOrder(response.mp4Formats) /\ InNativeOrder(response.audioFormats)

\* A response with two combined entries and an audio-only entry, from a list
\* that also holds formats left out of both.
C10_Witness ==
  /\ request.method = "POST" /\ pc = "done" /\ response.status = 200
  /\ Len(response.mp4Formats) >= 1 /\ Len(response.audioFormats) >= 1
  /\ Len(response.mp4Formats) + Len(response.audioFormats) < Len(formats)

\* Whether a format passes a kind filter of the Resolver: "audioonly" asks
\* for an audio track and no video track, "videoandaudio" for both tracks.
SatisfiesFilter(f, filter) ==
  IF filter = "audioonly" THEN f.hasAudio /\ ~f.hasVideo
  ELSE IF filter = "videoandaudio" THEN f.hasAudio /\ f.hasVideo
  ELSE TRUE

\* C11: when the download handler answers 200, it has opened exactly one
\* stream, for the id of the selected format and with a kind filter that the
\* selected format satisfies, and the headers announce that format's MIME
\* type and length; also when the format was selected by an explicit id
\* whose tracks do not match the requested kind.
C11_StreamIsSelectedFormat ==
  (request.method = "GET" /\ pc = "done" /\ response.status = 200) =>
    /\ IsSome(selectedFormat)
    /\ Cardinality({k \in 1..Len(calls) : calls[k].op = "ytdl"}) = 1
    /\ \A k \in 1..Len(calls) :
         calls[k].op = "ytdl" =>
           /\ calls[k].quality = Val(selectedFormat).itag
           /\ SatisfiesFilter(Val(selectedFormat), calls[k].filter)
    /\ IsSome(response.contentType) => response.contentType = Val(selectedFormat).mimeType
    /\ IsSome(response.contentLength) =>
         response.contentLength = Val(selectedFormat).contentLength

====
